---------------------------- MODULE Spec2Model ----------------------------
(***************************************************************************)
(* A model of the parallel-beam projector pair and the view batches of     *)
(* fbp_filter (experiments/bugs/jax rounding bug/parallel_beam.py), of the *)
(* pixel partition generators, the partition sequence generator and the    *)
(* array stitcher (mbirjax/vcd_utils.py), and of the event handlers of     *)
(* slice_viewer (mbirjax/plot_utils.py).                                   *)
(*                                                                         *)
(* Arithmetic is exact.  Angles are drawn from the rational points of the  *)
(* unit circle with denominator 5, so that cos and sin are the integers    *)
(* cos5/5 and sin5/5; channel coordinates are kept in twentieths of a      *)
(* channel and projection weights in eightieths of a length unit.          *)
(***************************************************************************)
EXTENDS Integers, Sequences, FiniteSets, TLC

VARIABLES
    \* ---- projector (parallel_beam.py) ----
    projector_params,     \* sinogram_shape, recon_shape, geometry_params
    angle,                \* [cos5, sin5]: cos = cos5/5, sin = sin5/5
    pixel_indices,        \* the batch: a sequence of flattened pixel indices
    voxel_values,         \* input of the forward projector, pixels x slices
    fwd_view,             \* the view returned by the forward projector, or <<>>
    sinogram_view,        \* input of the back projector, det rows x channels
    coeff_power,          \* coeff_power of the back projection
    det_voxel_cylinder,   \* result of the back projector (pixels x det rows), or <<>>
    angles,               \* the 'angles' parameter: one entry per view
    verify_pc,            \* verify_valid_params: "idle" | "call" | "done" | an error
    \* ---- partition generators (vcd_utils.py) ----
    strategy,             \* which generator is called
    recon_shape,          \* <<rows, cols>> passed to the generator
    num_subsets,          \* the requested number of subsets
    pattern,              \* the blue-noise rank pattern (bn.bn256)
    part_pc,              \* "call" | "done" | "error"
    warned,               \* whether warnings.warn was called
    partition,            \* the returned array: a sequence of rows
    full_indices,         \* the array returned by gen_full_indices
    \* ---- gen_partition_sequence (vcd_utils.py) ----
    partition_sequence,   \* the initial sequence of partition indices
    max_iterations,       \* the requested length
    extended_partition_sequence,   \* the returned sequence
    seq_pc,               \* "idle" | "call" | "done" | "error"
    \* ---- stitch_arrays (vcd_utils.py) ----
    array_list,           \* the list of 2-D arrays (sequences of rows)
    overlap_length,       \* the number of overlapping entries
    axis,                 \* the axis along which the arrays are combined
    stitched,             \* the returned array, or <<>>
    stitch_pc,            \* "idle" | "call" | "done" | "error"
    \* ---- fbp_filter (parallel_beam.py) ----
    sinogram,             \* the input sinogram: one entry per view
    view_batch_size,      \* the size of the view batches
    fbp_i,                \* the loop variable i of the batch loop
    filtered_sinogram_batch,   \* the batch being filtered, or <<>>
    filtered_sino_list,   \* the filtered batches appended so far
    filtered_sinogram,    \* the returned sinogram, or <<>>
    fbp_pc,               \* "idle" | "loop" | "filtering" | "done"
    \* ---- slice_viewer (plot_utils.py) ----
    data_shape,           \* data.shape after the slice axis is moved last
    data2_shape,          \* data2.shape, or None
    circle,               \* the selection circle on ax_data, or None
    circle2,              \* the selection circle on ax_data2, or None
    is_drawing,           \* whether a selection is being dragged
    text_box,             \* the text artist on ax_data, or None
    text_box2,            \* the text artist on ax_data2, or None
    cur_slice,            \* the slice of data on display
    cur_slice2,           \* the slice of data2 on display, or None
    button_down,          \* "up", or where the mouse button went down (environment)
    event                 \* the last event handled and whether its handler raised

projVars == <<projector_params, angle, pixel_indices, voxel_values, fwd_view,
              sinogram_view, coeff_power, det_voxel_cylinder, angles, verify_pc>>
partVars == <<strategy, recon_shape, num_subsets, pattern, part_pc, warned, partition,
              full_indices>>
seqVars == <<partition_sequence, max_iterations, extended_partition_sequence, seq_pc>>
stitchVars == <<array_list, overlap_length, axis, stitched, stitch_pc>>
fbpVars == <<sinogram, view_batch_size, fbp_i, filtered_sinogram_batch, filtered_sino_list,
             filtered_sinogram, fbp_pc>>
viewerVars == <<data_shape, data2_shape, circle, circle2, is_drawing, text_box, text_box2,
                cur_slice, cur_slice2, button_down, event>>
vars == <<projVars, partVars, seqVars, stitchVars, fbpVars, viewerVars>>

-----------------------------------------------------------------------------
(* Bounds of the model *)

\* recon grids of the projector are MaxReconSide x MaxReconSide at most
MaxReconSide == 2
\* detectors have at most MaxChannels channels
MaxChannels == 3
\* a pixel batch holds at most MaxBatch pixel indices
MaxBatch == 2
\* recon grids of the balanced random and blue-noise strategies have at most
\* MaxSide rows and columns and at most MaxPixels pixels inside the mask
MaxSide == 4
MaxPixels == 5
\* the requested number of subsets is 1..MaxSubsets
MaxSubsets == 6
\* recon grids of the grid-tiled strategy are MaxGridRows x MaxGridCols at most
MaxGridRows == 3
MaxGridCols == 9
\* the grid-tiled strategy is asked for 1..MaxGridSubsets subsets
MaxGridSubsets == 4
\* the blue-noise strategy alone is called for grids of at most MaxBlueSide rows
\* and columns with at most MaxBluePixels pixels inside the mask, and for
\* 1..MaxBlueSubsets subsets
MaxBlueSide == 3
MaxBluePixels == 4
MaxBlueSubsets == 4
\* an initial partition sequence has 1..MaxSeqLen entries
MaxSeqLen == 3
\* max_iterations is at most MaxIterations
MaxIterations == 7
\* the entries of a partition sequence: indices into the list of partitions
PartitionIndices == {0, 1, 2}
\* the arrays that are blended have 1..MaxStitchLen entries along the axis
MaxStitchLen == 3
\* the arrays whose shapes are validated have 0..MaxDim entries in each dimension
MaxDim == 2
\* the entries of the arrays that are blended
StitchValues == {0, 1}
\* numbers of arrays in a list that is blended, and in a list that is validated
ArrayCounts == {2, 3}
ShapeArrayCounts == {1, 2, 3}
\* overlap_length of a blend, and of a validation
Overlaps == {0, 1, 2}
ShapeOverlaps == {0, 1, 2, 3}
\* the size of the arrays that are blended in the dimension other than axis
StitchOffSizes == {2}
\* axis: the arrays are 2-D, and axis is the index of one of their dimensions
Axes == {0, 1}
\* the projections of pixels off the detector: a batch holds at most
\* MaxEdgeBatch pixel indices
MaxEdgeBatch == 2
\* their recon shapes <<rows, cols>>, numbers of channels, and values of
\* det_channel_offset (0: the detector is centred; 4 or -4: it is to one side
\* of every pixel)
EdgeShapes == { <<1, 2>>, <<2, 1>> }
EdgeChannels == {1, 2}
EdgeOffsets == {-4, 0, 4}
\* parameters that are verified: at most MaxViews views and angles, at most
\* MaxSlices detector rows and recon slices
MaxViews == 3
MaxSlices == 3
\* their numbers of detector channels
VerifyChannels == {1, 2}
\* numbers of detector rows (= recon slices); the rows are projected independently
DetRowCounts == {1}
\* voxel and sinogram values
Values == {0, 1}
\* delta_voxel and delta_det_channel
Deltas == {1, 2}
\* det_channel_offset
ChannelOffsets == {0}
\* coeff_power: 1, or 2 for the Hessian diagonal
CoeffPowers == {1, 2}

-----------------------------------------------------------------------------
(* Arithmetic helpers (numpy / jax.numpy primitives) *)

Abs(x) == IF x < 0 THEN -x ELSE x

Maximum(a, b) == IF a >= b THEN a ELSE b

Minimum(a, b) == IF a <= b THEN a ELSE b

\* jnp.clip(x, lo, hi)
Clip(x, lo, hi) == Minimum(Maximum(x, lo), hi)

\* ceil(a / b) for b > 0
CeilDiv(a, b) == -((-a) \div b)

\* jnp.round of num/den (den > 0): round half to even
RoundHalfEven(num, den) ==
    LET q == num \div den
        r == num - q * den
    IN  IF 2 * r < den THEN q
        ELSE IF 2 * r > den THEN q + 1
        ELSE IF q % 2 = 0 THEN q ELSE q + 1

\* jnp.arange(start, stop) as a sequence
ARange(start, stop) ==
    IF stop <= start THEN <<>> ELSE [i \in 1..(stop - start) |-> start + i - 1]

\* sum of f[i] for i in 1..n
SumTo(f, n) ==
    LET s[i \in 0..n] == IF i = 0 THEN 0 ELSE s[i - 1] + f[i]
    IN  s[n]

-----------------------------------------------------------------------------
(* Projector: parallel_beam.py *)

\* the angles of the model: <<cos5, sin5>> with cos5^2 + sin5^2 = 25
Angles == { <<5, 0>>, <<0, 5>>, <<4, 3>>, <<3, 4>>, <<-3, 4>>, <<-5, 0>> }

\* mutant of get_psf_radius: the half is rounded down
get_psf_radius_floor(delta_det_channel, delta_voxel) ==
    CeilDiv(delta_voxel, delta_det_channel) \div 2

\* ParallelBeamModel.get_psf_radius
get_psf_radius(delta_det_channel, delta_voxel) ==
    CeilDiv(CeilDiv(delta_voxel, delta_det_channel), 2)

\* ParallelBeamModel.get_geometry_parameters
get_geometry_parameters(delta_det_channel, det_channel_offset, delta_voxel) ==
    [delta_det_channel |-> delta_det_channel,
     det_channel_offset |-> det_channel_offset,
     delta_voxel |-> delta_voxel,
     psf_radius |-> get_psf_radius(delta_det_channel, delta_voxel)]

\* jnp.unravel_index(pixel_index, recon_shape[:2])
row_index(pixel_index, pp) == pixel_index \div pp.recon_shape[2]

col_index(pixel_index, pp) == pixel_index % pp.recon_shape[2]

\* ParallelBeamModel.recon_ij_to_x, times 10:
\* x = cos * delta_voxel * (j - (cols-1)/2) - sin * delta_voxel * (i - (rows-1)/2)
recon_ij_to_x10(i, j, delta_voxel, shape, ang) ==
    delta_voxel * (ang[1] * (2 * j - (shape[2] - 1)) - ang[2] * (2 * i - (shape[1] - 1)))

\* compute_proj_data: n_p, times 20
n_p20(pixel_index, ang, pp) ==
    LET gp == pp.geometry_params
        x10 == recon_ij_to_x10(row_index(pixel_index, pp), col_index(pixel_index, pp),
                               gp.delta_voxel, pp.recon_shape, ang)
    IN  (2 * x10 + 20 * gp.det_channel_offset) \div gp.delta_det_channel
            + 10 * (pp.sinogram_shape[3] - 1)

\* compute_proj_data: n_p_center = round(n_p)
n_p_center(pixel_index, ang, pp) == RoundHalfEven(n_p20(pixel_index, ang, pp), 20)

\* compute_proj_data: cos_alpha_p_xy = max(|cos|, |sin|), times 5
cos_alpha_p_xy5(ang) == Maximum(Abs(ang[1]), Abs(ang[2]))

\* mutant of W_p_c20: the projected width is not scaled by cos_alpha_p_xy
W_p_c20_unscaled(ang, pp) ==
    (20 * pp.geometry_params.delta_voxel) \div pp.geometry_params.delta_det_channel

\* compute_proj_data: W_p_c = (delta_voxel / delta_det_channel) * cos_alpha_p_xy, times 20
W_p_c20(ang, pp) ==
    (4 * pp.geometry_params.delta_voxel * cos_alpha_p_xy5(ang))
        \div pp.geometry_params.delta_det_channel

\* mutant of L_p_c_n20: the overlap is clipped at 1 instead of L_max
L_p_c_n20_clip_one(pixel_index, n, ang, pp) ==
    LET W == W_p_c20(ang, pp)
    IN  Clip((W + 20) \div 2 - Abs(n_p20(pixel_index, ang, pp) - 20 * n), 0, 20)

\* L_p_c_n = clip((W_p_c + 1) / 2 - |n_p - n|, 0, L_max), times 20
L_p_c_n20(pixel_index, n, ang, pp) ==
    LET W == W_p_c20(ang, pp)
    IN  Clip((W + 20) \div 2 - Abs(n_p20(pixel_index, ang, pp) - 20 * n), 0, Minimum(20, W))

\* mutant of A_chan_n80: the weight is not masked
A_chan_n80_unmasked(pixel_index, n, ang, pp) ==
    (20 * pp.geometry_params.delta_voxel * L_p_c_n20(pixel_index, n, ang, pp))
        \div cos_alpha_p_xy5(ang)

\* A_chan_n = delta_voxel * L_p_c_n / cos_alpha_p_xy, then masked by
\* (n >= 0) * (n < num_det_channels); times 80
A_chan_n80(pixel_index, n, ang, pp) ==
    IF n >= 0 /\ n < pp.sinogram_shape[3]
    THEN (20 * pp.geometry_params.delta_voxel * L_p_c_n20(pixel_index, n, ang, pp))
            \div cos_alpha_p_xy5(ang)
    ELSE 0

\* NumPy-style normalisation of an index into an axis of length size:
\* negative indices count from the end
NormIndex(n, size) == IF n < 0 THEN n + size ELSE n

\* x.at[:, n].add(u): an update at an index out of bounds is skipped
ScatterHits(n, c, size) == NormIndex(n, size) = c

\* x[:, n]: a read at an index out of bounds is clamped
GatherIndex(n, size) == Clip(NormIndex(n, size), 0, size - 1)

\* the offsets of the forward loop (line 160)
ForwardOffsets(pp) ==
    ARange(-pp.geometry_params.psf_radius, pp.geometry_params.psf_radius + 1)

\* the offsets of the back-projection loop (line 207)
BackOffsets(pp) == ARange(-pp.geometry_params.psf_radius, 0)

\* one pass of the forward loop body (lines 161-166) for offset n_offset
ForwardStep(view, v, idx, ang, pp, n_offset) ==
    LET nc == pp.sinogram_shape[3]
        n(p) == n_p_center(idx[p], ang, pp) + n_offset
    IN  [r \in 1..pp.sinogram_shape[2] |->
            [c \in 1..nc |->
                view[r][c] + SumTo([p \in 1..Len(idx) |->
                                      IF ScatterHits(n(p), c - 1, nc)
                                      THEN A_chan_n80(idx[p], n(p), ang, pp) * v[p][r]
                                      ELSE 0], Len(idx))]]

RECURSIVE ForwardLoop(_, _, _, _, _, _)
ForwardLoop(view, v, idx, ang, pp, offsets) ==
    IF offsets = <<>> THEN view
    ELSE ForwardLoop(ForwardStep(view, v, idx, ang, pp, Head(offsets)),
                     v, idx, ang, pp, Tail(offsets))

\* forward_project_pixel_batch_to_one_view; the view is in units of 1/80
forward_project_pixel_batch_to_one_view(v, idx, ang, pp) ==
    ForwardLoop([r \in 1..pp.sinogram_shape[2] |-> [c \in 1..pp.sinogram_shape[3] |-> 0]],
                v, idx, ang, pp, ForwardOffsets(pp))

\* integer power
RECURSIVE Pow(_, _)
Pow(a, k) == IF k = 0 THEN 1 ELSE a * Pow(a, k - 1)

\* one pass of the back-projection loop body (lines 208-224)
BackStep(cyl, sv, idx, ang, pp, power, n_offset) ==
    LET nc == pp.sinogram_shape[3]
        n(p) == n_p_center(idx[p], ang, pp) + n_offset
    IN  [p \in 1..Len(idx) |->
            [r \in 1..pp.sinogram_shape[2] |->
                cyl[p][r] + Pow(A_chan_n80(idx[p], n(p), ang, pp), power)
                              * sv[r][GatherIndex(n(p), nc) + 1]]]

RECURSIVE BackLoop(_, _, _, _, _, _, _)
BackLoop(cyl, sv, idx, ang, pp, power, offsets) ==
    IF offsets = <<>> THEN cyl
    ELSE BackLoop(BackStep(cyl, sv, idx, ang, pp, power, Head(offsets)),
                  sv, idx, ang, pp, power, Tail(offsets))

\* back_project_one_view_to_pixel_batch; the result is in units of 1/80^power
back_project_one_view_to_pixel_batch(sv, idx, ang, pp, power) ==
    BackLoop([p \in 1..Len(idx) |-> [r \in 1..pp.sinogram_shape[2] |-> 0]],
             sv, idx, ang, pp, power, BackOffsets(pp))

\* sequences over S of length lo..hi
SeqsOf(S, lo, hi) == UNION { [1..n -> S] : n \in lo..hi }

\* rows x cols arrays over S
Arrays(S, rows, cols) == [1..rows -> [1..cols -> S]]

ProjIdle ==
    /\ projector_params = <<>>
    /\ angle = <<>>
    /\ pixel_indices = <<>>
    /\ voxel_values = <<>>
    /\ fwd_view = <<>>
    /\ sinogram_view = <<>>
    /\ coeff_power = 0
    /\ det_voxel_cylinder = <<>>
    /\ angles = <<>>
    /\ verify_pc = "idle"

PartIdle ==
    /\ strategy = "none"
    /\ recon_shape = <<>>
    /\ num_subsets = 0
    /\ pattern = <<>>
    /\ part_pc = "idle"
    /\ warned = FALSE
    /\ partition = <<>>
    /\ full_indices = <<>>

SeqIdle ==
    /\ partition_sequence = <<>>
    /\ max_iterations = 0
    /\ extended_partition_sequence = <<>>
    /\ seq_pc = "idle"

StitchIdle ==
    /\ array_list = <<>>
    /\ overlap_length = 0
    /\ axis = 0
    /\ stitched = <<>>
    /\ stitch_pc = "idle"

FbpIdle ==
    /\ sinogram = <<>>
    /\ view_batch_size = 0
    /\ fbp_i = 0
    /\ filtered_sinogram_batch = <<>>
    /\ filtered_sino_list = <<>>
    /\ filtered_sinogram = <<>>
    /\ fbp_pc = "idle"

\* Python's None
None == <<>>

\* no viewer is open: the module globals of lines 12-16
ViewerIdle ==
    /\ data_shape = <<>>
    /\ data2_shape = None
    /\ circle = None
    /\ circle2 = None
    /\ is_drawing = FALSE
    /\ text_box = None
    /\ text_box2 = None
    /\ cur_slice = None
    /\ cur_slice2 = None
    /\ button_down = "up"
    /\ event = [name |-> "none", key |-> "", raised |-> "none"]

\* a model with its parameters set, an angle and a pixel batch; nothing projected yet
InitProj ==
    /\ \E rows \in 1..MaxReconSide, cols \in 1..MaxReconSide, nr \in DetRowCounts,
          nc \in 1..MaxChannels, dd \in Deltas, dv \in Deltas, off \in ChannelOffsets :
            projector_params = [sinogram_shape |-> <<1, nr, nc>>,
                                recon_shape |-> <<rows, cols, nr>>,
                                geometry_params |-> get_geometry_parameters(dd, off, dv)]
    /\ angle \in Angles
    /\ pixel_indices \in SeqsOf(0..(projector_params.recon_shape[1]
                                      * projector_params.recon_shape[2] - 1), 1, MaxBatch)
    /\ voxel_values = <<>>
    /\ fwd_view = <<>>
    /\ sinogram_view = <<>>
    /\ coeff_power = 0
    /\ det_voxel_cylinder = <<>>
    /\ angles = <<>>
    /\ verify_pc = "idle"
    /\ PartIdle /\ SeqIdle /\ StitchIdle /\ FbpIdle /\ ViewerIdle

\* a call of forward_project_pixel_batch_to_one_view
ForwardProject ==
    /\ projector_params # <<>>
    /\ fwd_view = <<>>
    /\ \E v \in Arrays(Values, Len(pixel_indices), projector_params.recon_shape[3]) :
        /\ voxel_values' = v
        /\ fwd_view' = forward_project_pixel_batch_to_one_view(v, pixel_indices, angle,
                                                               projector_params)
    /\ UNCHANGED <<projector_params, angle, pixel_indices, sinogram_view, coeff_power,
                   det_voxel_cylinder, angles, verify_pc>>
    /\ UNCHANGED <<partVars, seqVars, stitchVars, fbpVars, viewerVars>>

\* a call of back_project_one_view_to_pixel_batch
BackProject ==
    /\ projector_params # <<>>
    /\ det_voxel_cylinder = <<>>
    /\ \E sv \in Arrays(Values, projector_params.sinogram_shape[2],
                         projector_params.sinogram_shape[3]),
          power \in CoeffPowers :
        /\ sinogram_view' = sv
        /\ coeff_power' = power
        /\ det_voxel_cylinder' = back_project_one_view_to_pixel_batch(sv, pixel_indices, angle,
                                                                      projector_params, power)
    /\ UNCHANGED <<projector_params, angle, pixel_indices, voxel_values, fwd_view,
                   angles, verify_pc>>
    /\ UNCHANGED <<partVars, seqVars, stitchVars, fbpVars, viewerVars>>

NextProj == ForwardProject \/ BackProject

SpecProj == InitProj /\ [][NextProj]_vars

\* what super().verify_valid_params() (TomographyModel) can do: return or raise
SuperVerifyOutcomes == {"done", "error"}

\* mutant of SlicesDiffer: the slices are compared with the channels
SlicesDifferFromChannels(recon_shape3, sinogram_shape) ==
    recon_shape3[3] # sinogram_shape[3]

\* line 78: recon_shape[2] != sinogram_shape[1]
SlicesDiffer(recon_shape3, sinogram_shape) == recon_shape3[3] # sinogram_shape[2]

\* ParallelBeamModel.verify_valid_params: "done", or the error raised
verify_valid_params(super, sinogram_shape, angs, recon_shape3) ==
    IF super # "done" THEN "super_error"
    ELSE IF Len(angs) # sinogram_shape[1] THEN "views_error"
    ELSE IF SlicesDiffer(recon_shape3, sinogram_shape) THEN "slices_error"
    ELSE "done"

\* a model whose parameters were set one by one, about to be verified
InitVerify ==
    /\ \E views \in 1..MaxViews, rows \in 1..MaxSlices, nc \in VerifyChannels,
          slices \in 1..MaxSlices :
            projector_params = [sinogram_shape |-> <<views, rows, nc>>,
                                recon_shape |-> <<nc, nc, slices>>,
                                geometry_params |-> get_geometry_parameters(1, 0, 1)]
    /\ \E n \in 1..MaxViews : angles = [i \in 1..n |-> <<5, 0>>]
    /\ verify_pc = "call"
    /\ angle = <<>>
    /\ pixel_indices = <<>>
    /\ voxel_values = <<>>
    /\ fwd_view = <<>>
    /\ sinogram_view = <<>>
    /\ coeff_power = 0
    /\ det_voxel_cylinder = <<>>
    /\ PartIdle /\ SeqIdle /\ StitchIdle /\ FbpIdle /\ ViewerIdle

\* a call of verify_valid_params
VerifyValidParams ==
    /\ verify_pc = "call"
    /\ \E super \in SuperVerifyOutcomes :
          verify_pc' = verify_valid_params(super, projector_params.sinogram_shape, angles,
                                           projector_params.recon_shape)
    /\ UNCHANGED <<projector_params, angle, pixel_indices, voxel_values, fwd_view,
                   sinogram_view, coeff_power, det_voxel_cylinder, angles>>
    /\ UNCHANGED <<partVars, seqVars, stitchVars, fbpVars, viewerVars>>

SpecVerify == InitVerify /\ [][VerifyValidParams]_vars

\* a model whose detector may lie to one side of the recon grid
InitEdge ==
    /\ \E shape \in EdgeShapes, nr \in DetRowCounts, nc \in EdgeChannels,
          dd \in Deltas, dv \in Deltas, off \in EdgeOffsets :
            projector_params = [sinogram_shape |-> <<1, nr, nc>>,
                                recon_shape |-> <<shape[1], shape[2], nr>>,
                                geometry_params |-> get_geometry_parameters(dd, off, dv)]
    /\ angle \in Angles
    /\ pixel_indices \in SeqsOf(0..(projector_params.recon_shape[1]
                                      * projector_params.recon_shape[2] - 1), 1, MaxEdgeBatch)
    /\ voxel_values = <<>>
    /\ fwd_view = <<>>
    /\ sinogram_view = <<>>
    /\ coeff_power = 0
    /\ det_voxel_cylinder = <<>>
    /\ angles = <<>>
    /\ verify_pc = "idle"
    /\ PartIdle /\ SeqIdle /\ StitchIdle /\ FbpIdle /\ ViewerIdle

SpecEdge == InitEdge /\ [][NextProj]_vars

-----------------------------------------------------------------------------
(* Partition generators: vcd_utils.py *)

\* get_2d_ror_mask: whether pixel (r, c), 0-based, is inside the mask.
\* Coordinates and radius are doubled: 2 * row_center = rows - 1.
get_2d_ror_mask(shape, r, c) ==
    LET radius2 == Maximum(shape[1] - 1, shape[2] - 1)
        col_coord2 == 2 * c - (shape[2] - 1)
        row_coord2 == 2 * r - (shape[1] - 1)
    IN  col_coord2 * col_coord2 + row_coord2 * row_coord2 <= radius2 * radius2

\* mask.flatten()[i] for the flattened (row-major) pixel index i
FlatMask(shape, i) == get_2d_ror_mask(shape, i \div shape[2], i % shape[2])

\* mutant of MaskedIndices: the arange stops one index short
MaskedIndicesShort(shape) ==
    SelectSeq(ARange(0, shape[1] * shape[2] - 1), LAMBDA i : FlatMask(shape, i))

\* indices[mask == 1]: the in-mask pixel indices, ascending
MaskedIndices(shape) ==
    SelectSeq(ARange(0, shape[1] * shape[2]), LAMBDA i : FlatMask(shape, i))

\* the elements of a sequence
Range(s) == { s[i] : i \in 1..Len(s) }

\* np.random.permutation(s): every ordering of the sequence s
RECURSIVE PermutationsOfSet(_)
PermutationsOfSet(S) ==
    IF S = {} THEN { <<>> }
    ELSE UNION { { <<x>> \o q : q \in PermutationsOfSet(S \ {x}) } : x \in S }

\* the positions 1..Len(s) reordered, applied to s (s may hold equal values)
PermutationsOf(s) == { [i \in 1..Len(s) |-> s[q[i]]] : q \in PermutationsOfSet(1..Len(s)) }

\* np.random.choice(pool, size, replace=False): ordered draws of size distinct positions
RECURSIVE DrawPositions(_, _)
DrawPositions(P, size) ==
    IF size = 0 THEN { <<>> }
    ELSE UNION { { <<x>> \o q : q \in DrawPositions(P \ {x}, size - 1) } : x \in P }

ChoiceWithoutReplacement(pool, size) ==
    { [i \in 1..size |-> pool[q[i]]] : q \in DrawPositions(1..Len(pool), size) }

\* s[:n]
Prefix(s, n) == SubSeq(s, 1, Minimum(Maximum(n, 0), Len(s)))

\* indices.reshape(num_rows, indices.size // num_rows)
Reshape(s, num_rows) ==
    LET w == Len(s) \div num_rows
    IN  [i \in 1..num_rows |-> SubSeq(s, (i - 1) * w + 1, i * w)]

\* insertion of x into the ascending sequence s
RECURSIVE InsertSorted(_, _)
InsertSorted(x, s) ==
    IF s = <<>> THEN <<x>>
    ELSE IF x <= Head(s) THEN <<x>> \o s
    ELSE <<Head(s)>> \o InsertSorted(x, Tail(s))

\* jnp.sort of one row
RECURSIVE SortRow(_)
SortRow(s) == IF s = <<>> THEN <<>> ELSE InsertSorted(Head(s), SortRow(Tail(s)))

\* mutant of SortRows: the rows are left as they are
UnsortedRows(rows) == rows

\* jnp.sort(indices, axis=1)
SortRows(rows) == [i \in 1..Len(rows) |-> SortRow(rows[i])]

\* the outcome of a call: how it ended, whether it warned, and the array returned
Outcome(pc, w, rows) == [pc |-> pc, warned |-> w, partition |-> rows]

\* line 186: the number of subsets after the reduction to the number of indices
ReducedNumSubsets(n, k) == IF k > n THEN n ELSE k

\* mutant of NumIndicesPerSubset: n // k + 1 in place of the ceiling
NumIndicesPerSubsetPlusOne(n, k) == (n \div k) + 1

\* line 193: num_indices_per_subset = ceil(len(indices) / num_subsets)
NumIndicesPerSubset(n, k) == CeilDiv(n, k)

\* line 199: num_non_final_indices
NumNonFinalIndices(k, m) == (k - 1) * m

\* lines 196-205 for one outcome perm of the shuffle and one outcome extra of the draw
AssemblePartition(perm, extra, k) == SortRows(Reshape(perm \o extra, k))

\* gen_pixel_partition: the set of its possible outcomes over the random shuffle
\* (line 196) and the random padding (line 200).  With no index in the mask
\* the reduced num_subsets is 0 and line 193 divides by it.
gen_pixel_partition(shape, k) ==
    LET indices == MaskedIndices(shape)
        n == Len(indices)
        w == k > n
        ns == ReducedNumSubsets(n, k)
    IN  IF ns = 0 THEN { Outcome("error", w, <<>>) }
        ELSE LET m == NumIndicesPerSubset(n, ns)
                 num_extra_indices == ns * m - n
                 num_non_final_indices == NumNonFinalIndices(ns, m)
             IN  IF num_extra_indices < 0
                        \/ num_extra_indices > Len(Prefix(indices, num_non_final_indices))
                     THEN { Outcome("error", w, <<>>) }
                 ELSE UNION { { Outcome("done", w, AssemblePartition(perm, extra, ns)) :
                                  extra \in ChoiceWithoutReplacement(
                                               Prefix(perm, num_non_final_indices),
                                               num_extra_indices) } :
                              perm \in PermutationsOf(indices) }

\* np.ceil(np.sqrt(k)): the least s with s * s >= k
RECURSIVE CeilSqrtFrom(_, _)
CeilSqrtFrom(k, s) == IF s * s >= k THEN s ELSE CeilSqrtFrom(k, s + 1)

CeilSqrt(k) == CeilSqrtFrom(k, 0)

\* lines 124-125 and 234-235: the flattened labels, -1 outside the mask;
\* tile[i][j] (1-based) is the label pattern that is tiled over the grid
TiledSubsetInds(shape, tile, side) ==
    [i \in 1..(shape[1] * shape[2]) |->
        IF FlatMask(shape, i - 1)
        THEN tile[(((i - 1) \div shape[2]) % side) + 1][(((i - 1) % shape[2]) % side) + 1]
        ELSE -1]

\* np.where(subset_inds == k)[0]: the flat indices carrying label k, ascending
IndicesOfLabel(subset_inds, k) ==
    SelectSeq(ARange(0, Len(subset_inds)), LAMBDA i : subset_inds[i + 1] = k)

\* the ascending sequence of the elements of a finite set of integers
RECURSIVE SetToSortedSeq(_)
SetToSortedSeq(S) ==
    IF S = {} THEN <<>>
    ELSE LET x == CHOOSE y \in S : \A z \in S : y <= z
         IN  <<x>> \o SetToSortedSeq(S \ {x})

\* largest and smallest subset size (max_points, min_points)
MaxPoints(flat_inds) ==
    CHOOSE m \in { Len(flat_inds[k]) : k \in 1..Len(flat_inds) } :
        \A k \in 1..Len(flat_inds) : Len(flat_inds[k]) <= m

MinPoints(flat_inds) ==
    CHOOSE m \in { Len(flat_inds[k]) : k \in 1..Len(flat_inds) } :
        \A k \in 1..Len(flat_inds) : Len(flat_inds[k]) >= m

\* the subset (0-based) from which subset k borrows its j-th extra point (lines 151, 258)
ExtraSubsetInd(k, j, n) == (k + 1 + j) % n

\* lines 147-153 and 254-260: subsets k, k+1, ... are padded in turn to max_points
RECURSIVE BorrowLoop(_, _, _, _)
BorrowLoop(flat_inds, extra_point_inds, max_points, k) ==
    IF k >= Len(flat_inds) THEN flat_inds
    ELSE LET cur_inds == flat_inds[k + 1]
             num_extra_points == max_points - Len(cur_inds)
             new_point_inds ==
                 [j \in 1..num_extra_points |->
                     flat_inds[ExtraSubsetInd(k, j - 1, Len(flat_inds)) + 1]
                              [extra_point_inds[j] + 1]]
         IN  BorrowLoop(IF num_extra_points > 0
                        THEN [flat_inds EXCEPT ![k + 1] = cur_inds \o new_point_inds]
                        ELSE flat_inds,
                        extra_point_inds, max_points, k + 1)

\* np.random.randint(min_points, size=(max_points - min_points + 1,))
ExtraPointInds(flat_inds) ==
    [1..(MaxPoints(flat_inds) - MinPoints(flat_inds) + 1) -> 0..(MinPoints(flat_inds) - 1)]

\* lines 133-134: the labels of the in-mask pixels, one per row
ReducedGridResult(subset_inds) ==
    LET kept == SelectSeq(subset_inds, LAMBDA x : x > -1)
    IN  [i \in 1..Len(kept) |-> <<kept[i]>>]

\* lines 157-159: the grid strategy returns the padded subsets as they are
GridResult(flat_inds) == flat_inds

\* gen_pixel_partition_grid: the set of its possible outcomes over the random
\* label permutation (line 119) and the random points borrowed (line 146)
gen_pixel_partition_grid(shape, k) ==
    LET small_tile_side == CeilSqrt(k)
        ns == small_tile_side * small_tile_side
    IN  UNION {
          LET tile == Reshape(single, small_tile_side)
              subset_inds == TiledSubsetInds(shape, tile, small_tile_side)
              num_inds == Len(SelectSeq(subset_inds, LAMBDA x : x > -1))
          IN  IF ns > num_inds
              THEN { Outcome("done", TRUE, ReducedGridResult(subset_inds)) }
              ELSE LET nonempty_subsets ==
                           SetToSortedSeq({ x \in Range(subset_inds) : x >= 0 })
                       flat_inds == [k2 \in 1..Len(nonempty_subsets) |->
                                        IndicesOfLabel(subset_inds, nonempty_subsets[k2])]
                   IN  { Outcome("done", FALSE,
                                 GridResult(BorrowLoop(flat_inds, e, MaxPoints(flat_inds), 0))) :
                           e \in ExtraPointInds(flat_inds) }
          : single \in PermutationsOf(ARange(0, ns)) }

\* 2**16, the number of ranks of the blue-noise pattern (line 229)
RankRange == 65536

\* line 229: floor(pattern / (2**16 / num_subsets))
RankToSubset(rank, k) == (rank * k) \div RankRange

\* lines 261-262: the blue-noise strategy sorts each subset
BlueNoiseResult(flat_inds) == SortRows(flat_inds)

\* mutant of BlueNoiseFallback: the fallback asks for one subset too many
BlueNoiseFallbackOffByOne(shape, k) == gen_pixel_partition(shape, k + 1)

\* lines 238 and 250: return gen_pixel_partition(recon_shape, num_subsets)
BlueNoiseFallback(shape, k) == gen_pixel_partition(shape, k)

\* gen_pixel_partition_blue_noise for the rank pattern pat (a square array):
\* the set of its possible outcomes
gen_pixel_partition_blue_noise(shape, k, pat) ==
    LET tile == [i \in 1..Len(pat) |-> [j \in 1..Len(pat) |-> RankToSubset(pat[i][j], k)]]
        subset_inds == TiledSubsetInds(shape, tile, Len(pat))
        num_valid_inds == Len(SelectSeq(subset_inds, LAMBDA x : x >= 0))
    IN  IF k > num_valid_inds THEN BlueNoiseFallback(shape, k)
        ELSE LET flat_inds == [k2 \in 1..k |-> IndicesOfLabel(subset_inds, k2 - 1)]
             IN  IF MinPoints(flat_inds) = 0 THEN BlueNoiseFallback(shape, k)
                 ELSE { Outcome("done", FALSE,
                                BlueNoiseResult(BorrowLoop(flat_inds, e,
                                                           MaxPoints(flat_inds), 0))) :
                          e \in ExtraPointInds(flat_inds) }

\* stand-ins for the rank pattern bn.bn256 (256 x 256 ranks below 2**16):
\* the 2 x 2 arrays holding each of four evenly spaced ranks once
Patterns == { Reshape(q, 2) : q \in PermutationsOf(<<0, 16384, 32768, 49152>>) }

\* the recon shapes <<rows, cols>> of the model, per strategy
BalancedShapes ==
    { s \in (1..MaxSide) \X (1..MaxSide) : Len(MaskedIndices(s)) <= MaxPixels }

GridShapes == (1..MaxGridRows) \X (1..MaxGridCols)

\* a call of strat(shape, k) about to be made
PartCall(strat, shapes, counts, pats) ==
    /\ strategy = strat
    /\ recon_shape \in shapes
    /\ num_subsets \in counts
    /\ pattern \in pats
    /\ part_pc = "call"
    /\ warned = FALSE
    /\ partition = <<>>
    /\ full_indices = <<>>

InitRandom ==
    /\ PartCall("random", BalancedShapes, 1..MaxSubsets, {<<>>})
    /\ ProjIdle /\ SeqIdle /\ StitchIdle /\ FbpIdle /\ ViewerIdle

InitPart ==
    /\ \/ PartCall("random", BalancedShapes, 1..MaxSubsets, {<<>>})
       \/ PartCall("grid", GridShapes, 1..MaxGridSubsets, {<<>>})
       \/ PartCall("blue_noise", BalancedShapes, 1..MaxSubsets, Patterns)
    /\ ProjIdle /\ SeqIdle /\ StitchIdle /\ FbpIdle /\ ViewerIdle

\* the call returns (or raises) with one of its possible outcomes
Return(outcomes) ==
    /\ part_pc = "call"
    /\ \E out \in outcomes :
        /\ part_pc' = out.pc
        /\ warned' = out.warned
        /\ partition' = out.partition
    /\ UNCHANGED <<strategy, recon_shape, num_subsets, pattern, full_indices>>
    /\ UNCHANGED <<projVars, seqVars, stitchVars, fbpVars, viewerVars>>

GenPixelPartition ==
    /\ strategy = "random"
    /\ Return(gen_pixel_partition(recon_shape, num_subsets))

GenPixelPartitionGrid ==
    /\ strategy = "grid"
    /\ Return(gen_pixel_partition_grid(recon_shape, num_subsets))

GenPixelPartitionBlueNoise ==
    /\ strategy = "blue_noise"
    /\ Return(gen_pixel_partition_blue_noise(recon_shape, num_subsets, pattern))

NextPart == GenPixelPartition \/ GenPixelPartitionGrid \/ GenPixelPartitionBlueNoise

SpecRandom == InitRandom /\ [][GenPixelPartition]_vars

SpecPart == InitPart /\ [][NextPart]_vars

\* calls of gen_pixel_partition_blue_noise only
BlueNoiseShapes ==
    { s \in (1..MaxBlueSide) \X (1..MaxBlueSide) : Len(MaskedIndices(s)) <= MaxBluePixels }

InitBlueNoise ==
    /\ PartCall("blue_noise", BlueNoiseShapes, 1..MaxBlueSubsets, Patterns)
    /\ ProjIdle /\ SeqIdle /\ StitchIdle /\ FbpIdle /\ ViewerIdle

SpecBlueNoise == InitBlueNoise /\ [][GenPixelPartitionBlueNoise]_vars

-----------------------------------------------------------------------------
(* gen_partition_sequence and gen_full_indices: vcd_utils.py *)

\* s[:n], for n of either sign
SliceTo(s, n) ==
    IF n >= 0 THEN SubSeq(s, 1, Minimum(n, Len(s)))
    ELSE SubSeq(s, 1, Maximum(Len(s) + n, 0))

\* mutant of LastElement: the first entry
FirstElement(s) == s[1]

\* line 281: partition_sequence[-1]
LastElement(s) == s[Len(s)]

\* line 283: np.full(size, value)
Full(size, value) == [i \in 1..size |-> value]

\* gen_partition_sequence, for a non-empty sequence
gen_partition_sequence(seq, n) ==
    LET current_length == Len(seq)
    IN  IF n > current_length
        THEN seq \o Full(n - current_length, LastElement(seq))
        ELSE SliceTo(seq, n)

\* gen_full_indices: the possible outcomes; partition is the local variable of
\* line 298, and an error of gen_pixel_partition propagates
gen_full_indices(shape) ==
    { [pc |-> out.pc, warned |-> out.warned, partition |-> out.partition,
       full_indices |-> IF out.pc = "done" THEN out.partition[1] ELSE <<>>] :
        out \in gen_pixel_partition(shape, 1) }

\* a call of gen_partition_sequence about to be made
SeqCall ==
    /\ partition_sequence \in SeqsOf(PartitionIndices, 1, MaxSeqLen)
    /\ max_iterations \in (-1)..MaxIterations
    /\ extended_partition_sequence = <<>>
    /\ seq_pc = "call"

InitIndices ==
    /\ \/ SeqCall /\ PartIdle
       \/ SeqIdle /\ PartCall("full_indices", BalancedShapes, {1}, {<<>>})
    /\ ProjIdle /\ StitchIdle /\ FbpIdle /\ ViewerIdle

GenPartitionSequence ==
    /\ seq_pc = "call"
    /\ extended_partition_sequence' = gen_partition_sequence(partition_sequence, max_iterations)
    /\ seq_pc' = "done"
    /\ UNCHANGED <<partition_sequence, max_iterations>>
    /\ UNCHANGED <<projVars, partVars, stitchVars, fbpVars, viewerVars>>

GenFullIndices ==
    /\ strategy = "full_indices"
    /\ part_pc = "call"
    /\ \E out \in gen_full_indices(recon_shape) :
        /\ part_pc' = out.pc
        /\ warned' = out.warned
        /\ partition' = out.partition
        /\ full_indices' = out.full_indices
    /\ UNCHANGED <<strategy, recon_shape, num_subsets, pattern>>
    /\ UNCHANGED <<projVars, seqVars, stitchVars, fbpVars, viewerVars>>

NextIndices == GenPartitionSequence \/ GenFullIndices

SpecIndices == InitIndices /\ [][NextIndices]_vars

-----------------------------------------------------------------------------
(* stitch_arrays: vcd_utils.py.  An array is a record of its shape <<d0, d1>>  *)
(* and its data, a sequence of d0 rows of d1 entries.  Entries are integers:  *)
(* a call on n arrays is made on the entries times (overlap_length + 1)^(n-1), *)
(* which keeps every weighted average an integer.                             *)

Array(shape, data) == [shape |-> shape, data |-> data]

\* jnp.swapaxes(a, 0, ax) of a 2-D array
SwapAxes(a, ax) ==
    IF ax = 0 THEN a
    ELSE Array(<<a.shape[2], a.shape[1]>>,
               [i \in 1..a.shape[2] |-> [j \in 1..a.shape[1] |-> a.data[j][i]]])

\* the rows lo..hi (1-based, inclusive) of a
RowsOf(a, lo, hi) ==
    Array(<<Maximum(hi - lo + 1, 0), a.shape[2]>>,
          IF hi < lo THEN <<>> ELSE SubSeq(a.data, lo, hi))

\* a[-n:]; a[-0:] is the whole array
LastRows(a, n) ==
    IF n = 0 THEN a ELSE RowsOf(a, Maximum(a.shape[1] - n, 0) + 1, a.shape[1])

\* a[:n]
FirstRows(a, n) == RowsOf(a, 1, Minimum(n, a.shape[1]))

\* mutant of DropLastRows: nothing is dropped
DropNoRows(a, n) == a

\* a[:-n]; a[:-0] is empty
DropLastRows(a, n) ==
    IF n = 0 THEN RowsOf(a, 1, 0) ELSE RowsOf(a, 1, Maximum(a.shape[1] - n, 0))

\* a[n:]
DropFirstRows(a, n) == RowsOf(a, Minimum(n, a.shape[1]) + 1, a.shape[1])

\* the size that broadcasting gives two sizes of one dimension, -1 if they
\* are incompatible
BroadcastDim(x, y) ==
    IF x = y THEN x ELSE IF x = 1 THEN y ELSE IF y = 1 THEN x ELSE -1

\* the index into a dimension of the given size that serves index k of the
\* broadcast result
Pick(k, size) == IF size = 1 THEN 1 ELSE k

\* mutant of Weights: the slice [:-1] in place of [1:]
WeightsFromZero(L) == [j \in 1..L |-> j - 1]

\* line 39: jnp.linspace(0, 1, L + 1, endpoint=False)[1:], times L + 1
Weights(L) == [j \in 1..L |-> j]

\* the result of an array operation: pc is "done" or the error raised
StitchOutcome(pc, a) == [pc |-> pc, stitched |-> a]

\* line 55: (1 - weights) * overlap_current + weights * overlap_next, where
\* weights has shape (L, 1)
WeightedOverlap(overlap_current, overlap_next, L) ==
    LET rows1 == BroadcastDim(L, overlap_current.shape[1])
        rows2 == BroadcastDim(L, overlap_next.shape[1])
        rows == IF rows1 < 0 \/ rows2 < 0 THEN -1 ELSE BroadcastDim(rows1, rows2)
        cols == BroadcastDim(overlap_current.shape[2], overlap_next.shape[2])
        w(i) == Weights(L)[Pick(i, L)]
    IN  IF rows < 0 \/ cols < 0 THEN StitchOutcome("broadcast_error", <<>>)
        ELSE StitchOutcome("done",
               Array(<<rows, cols>>,
                     [i \in 1..rows |-> [j \in 1..cols |->
                         ((L + 1 - w(i))
                             * overlap_current.data[Pick(i, overlap_current.shape[1])]
                                                   [Pick(j, overlap_current.shape[2])]
                          + w(i) * overlap_next.data[Pick(i, overlap_next.shape[1])]
                                                    [Pick(j, overlap_next.shape[2])])
                         \div (L + 1)]]))

\* jnp.concatenate([a, b], axis=0)
Concatenate(a, b) ==
    IF a.shape[2] # b.shape[2] THEN StitchOutcome("concatenate_error", <<>>)
    ELSE StitchOutcome("done", Array(<<a.shape[1] + b.shape[1], a.shape[2]>>, a.data \o b.data))

\* lines 50-61: one pass of the loop, for next_array already swapped
StitchStep(current, next_array, L) ==
    LET weighted_overlap == WeightedOverlap(LastRows(current, L), FirstRows(next_array, L), L)
    IN  IF weighted_overlap.pc # "done" THEN weighted_overlap
        ELSE LET replaced == Concatenate(DropLastRows(current, L), weighted_overlap.stitched)
             IN  IF replaced.pc # "done" THEN replaced
                 ELSE Concatenate(replaced.stitched, DropFirstRows(next_array, L))

\* lines 48-61: the loop over array_list[1:]
RECURSIVE StitchLoop(_, _, _, _)
StitchLoop(current, rest, L, ax) ==
    IF rest = <<>> THEN StitchOutcome("done", current)
    ELSE LET step == StitchStep(current, SwapAxes(Head(rest), ax), L)
         IN  IF step.pc # "done" THEN step
             ELSE StitchLoop(step.stitched, Tail(rest), L, ax)

\* [array.shape[dim] for array in array_list]
Lengths(list, dim) == [i \in 1..Len(list) |-> list[i].shape[dim + 1]]

\* np.amax and np.amin of a non-empty sequence
AMax(lengths) == CHOOSE m \in Range(lengths) : \A x \in Range(lengths) : x <= m

AMin(lengths) == CHOOSE m \in Range(lengths) : \A x \in Range(lengths) : x >= m

\* mutant of ShapesDiffer: only the first and the last array are compared
EndShapesDiffer(lengths) == lengths[1] # lengths[Len(lengths)]

\* line 32: np.amax(lengths) != np.amin(lengths)
ShapesDiffer(lengths) == AMax(lengths) # AMin(lengths)

\* mutant of TooShort: every array has to hold all the overlaps of the list
TooShortForAll(lengths, L) == AMin(lengths) < (Len(lengths) - 1) * L

\* mutant of TooShort: the longest array is compared with overlap_length
AllTooShort(lengths, L) == AMax(lengths) < L

\* line 35: np.amin(lengths) < overlap_length
TooShort(lengths, L) == AMin(lengths) < L

\* lines 29-36 for one dim: whether the input is rejected
DimRejected(list, L, ax, dim) ==
    \/ dim # ax /\ ShapesDiffer(Lengths(list, dim))
    \/ dim = ax /\ TooShort(Lengths(list, dim), L)

\* stitch_arrays for a list of 2-D arrays
stitch_arrays(list, L, ax) ==
    IF Len(list) < 2 THEN StitchOutcome("value_error", <<>>)
    ELSE IF \E dim \in {0, 1} : DimRejected(list, L, ax, dim)
    THEN StitchOutcome("value_error", <<>>)
    ELSE LET looped == StitchLoop(SwapAxes(list[1], ax), Tail(list), L, ax)
         IN  IF looped.pc # "done" THEN looped
             ELSE StitchOutcome("done", SwapAxes(looped.stitched, ax))

\* the factor that makes the weighted averages of a call on n arrays integers
Scale(L, n) == Pow(L + 1, n - 1)

Scaled(list, L) ==
    [i \in 1..Len(list) |->
        Array(list[i].shape,
              [r \in 1..list[i].shape[1] |-> [c \in 1..list[i].shape[2] |->
                  list[i].data[r][c] * Scale(L, Len(list))]])]

\* the array that holds lane along axis ax at each of off positions
LaneArray(lane, off, ax) ==
    IF ax = 0
    THEN Array(<<Len(lane), off>>, [i \in 1..Len(lane) |-> [j \in 1..off |-> lane[i]]])
    ELSE Array(<<off, Len(lane)>>, [i \in 1..off |-> lane])

\* jnp.zeros(shape)
Zeros(shape) == Array(shape, [i \in 1..shape[1] |-> [j \in 1..shape[2] |-> 0]])

\* a call of stitch_arrays about to be made
StitchCall ==
    /\ stitched = <<>>
    /\ stitch_pc = "call"

\* calls on arrays that agree in the other dimension
InitStitch ==
    /\ axis \in Axes
    /\ overlap_length \in Overlaps
    /\ \E n \in ArrayCounts, off \in StitchOffSizes :
          \E lanes \in [1..n -> SeqsOf(StitchValues, 1, MaxStitchLen)] :
              array_list = [i \in 1..n |-> LaneArray(lanes[i], off, axis)]
    /\ StitchCall
    /\ ProjIdle /\ PartIdle /\ SeqIdle /\ FbpIdle /\ ViewerIdle

\* calls on arrays of any shapes
InitStitchShapes ==
    /\ axis \in Axes
    /\ overlap_length \in ShapeOverlaps
    /\ \E n \in ShapeArrayCounts :
          \E shapes \in [1..n -> (0..MaxDim) \X (0..MaxDim)] :
              array_list = [i \in 1..n |-> Zeros(shapes[i])]
    /\ StitchCall
    /\ ProjIdle /\ PartIdle /\ SeqIdle /\ FbpIdle /\ ViewerIdle

StitchArrays ==
    /\ stitch_pc = "call"
    /\ LET out == stitch_arrays(Scaled(array_list, overlap_length), overlap_length, axis)
       IN  /\ stitch_pc' = out.pc
           /\ stitched' = out.stitched
    /\ UNCHANGED <<array_list, overlap_length, axis>>
    /\ UNCHANGED <<projVars, partVars, seqVars, fbpVars, viewerVars>>

SpecStitch == InitStitch /\ [][StitchArrays]_vars

SpecStitchShapes == InitStitchShapes /\ [][StitchArrays]_vars

-----------------------------------------------------------------------------
(* Claims about the projector pair, checked under SpecProj *)

\* <forward(v), s>: the inner product of the forward view with sinogram_view
InnerView ==
    SumTo([r \in 1..Len(fwd_view) |->
              SumTo([c \in 1..Len(fwd_view[r]) |-> fwd_view[r][c] * sinogram_view[r][c]],
                    Len(fwd_view[r]))], Len(fwd_view))

\* <v, back(s)>: the inner product of voxel_values with the back projection
InnerVoxels ==
    SumTo([p \in 1..Len(voxel_values) |->
              SumTo([r \in 1..Len(voxel_values[p]) |->
                        voxel_values[p][r] * det_voxel_cylinder[p][r]],
                    Len(voxel_values[p]))], Len(voxel_values))

BothProjected == fwd_view # <<>> /\ det_voxel_cylinder # <<>>

\* C1 (adjointness): once a voxel batch v has been forward projected and a view s
\* back projected with coeff_power = 1 under the same geometry, angle and pixel
\* batch, <forward(v), s> equals <v, back(s)>.
C1_Adjointness ==
    (BothProjected /\ coeff_power = 1) => InnerView = InnerVoxels

\* the sum over all 2R+1 offsets of weight(n_offset)^power * sv[r, nearest_channel + n_offset]
\* for the pixel at position p of the batch
AllOffsetsSum(p, r) ==
    LET pp == projector_params
        R == pp.geometry_params.psf_radius
        n(k) == n_p_center(pixel_indices[p], angle, pp) + (k - R - 1)
    IN  SumTo([k \in 1..(2 * R + 1) |->
                  IF n(k) >= 0 /\ n(k) < pp.sinogram_shape[3]
                  THEN Pow(A_chan_n80(pixel_indices[p], n(k), angle, pp), coeff_power)
                          * sinogram_view[r][n(k) + 1]
                  ELSE 0], 2 * R + 1)

\* C2 (back projection runs the forward projector's offset loop): after a back
\* projection every pixel's result is the sum, over every channel offset in
\* -R..R, of weight(n_offset) * sinogram_view[:, nearest_channel + n_offset].
C2_BackCoversAllOffsets ==
    det_voxel_cylinder # <<>> =>
        \A p \in 1..Len(pixel_indices) : \A r \in 1..projector_params.sinogram_shape[2] :
            det_voxel_cylinder[p][r] = AllOffsetsSum(p, r)

\* C20 (parameter check, SpecVerify): verify_valid_params raises when the
\* number of angles differs from the number of sinogram views and when the
\* number of recon slices differs from the number of sinogram rows; where the
\* check of the base class passes, it raises the first of its two errors that
\* applies, and none of the two when both pairs are equal.
C20_VerifyValidParams ==
    verify_pc \notin {"idle", "call"} =>
        LET views_differ == Len(angles) # projector_params.sinogram_shape[1]
            slices_differ ==
                projector_params.recon_shape[3] # projector_params.sinogram_shape[2]
        IN  /\ (views_differ \/ slices_differ) => verify_pc # "done"
            /\ ~views_differ => verify_pc # "views_error"
            /\ ~slices_differ => verify_pc # "slices_error"
            /\ verify_pc # "super_error" =>
                  /\ views_differ => verify_pc = "views_error"
                  /\ (~views_differ /\ slices_differ) => verify_pc = "slices_error"

\* as many angles as views, but the slices differ from the detector rows,
\* whose number is the number of detector channels
C20_Witness ==
    /\ verify_pc = "slices_error"
    /\ Len(angles) = projector_params.sinogram_shape[1]
    /\ projector_params.recon_shape[3] = projector_params.sinogram_shape[3]
    /\ projector_params.recon_shape[3] # projector_params.sinogram_shape[2]

\* the candidate channels of the pixel at position p of the batch:
\* nearest_channel + n_offset for n_offset in -R..R
CandidateChannels(p) ==
    { n_p_center(pixel_indices[p], angle, projector_params) + n_offset :
        n_offset \in (-projector_params.geometry_params.psf_radius)
                         ..projector_params.geometry_params.psf_radius }

OnDetector(n) == n >= 0 /\ n < projector_params.sinogram_shape[3]

\* the weight of pixel p for channel n where it is not masked, times 80
Weight80(p, n) ==
    (20 * projector_params.geometry_params.delta_voxel
        * L_p_c_n20(pixel_indices[p], n, angle, projector_params))
            \div cos_alpha_p_xy5(angle)

\* what the pixels of the batch add to channel c (0-based) of row r of the
\* view through their candidate channels on the detector
OnDetectorView(r, c) ==
    SumTo([p \in 1..Len(pixel_indices) |->
              IF c \in CandidateChannels(p) THEN Weight80(p, c) * voxel_values[p][r] ELSE 0],
          Len(pixel_indices))

\* what the back-projection loop gathers for pixel p through the candidate
\* channels on the detector
OnDetectorBack(p, r) ==
    LET nearest == n_p_center(pixel_indices[p], angle, projector_params)
        offsets == BackOffsets(projector_params)
        term(n_offset) ==
            IF OnDetector(nearest + n_offset)
            THEN Pow(Weight80(p, nearest + n_offset), coeff_power)
                    * sinogram_view[r][nearest + n_offset + 1]
            ELSE 0
    IN  SumTo([k \in 1..Len(offsets) |-> term(offsets[k])], Len(offsets))

\* C19 (zero footprint, SpecEdge): a candidate channel outside
\* [0, num_channels) contributes nothing in either direction: the forward view
\* holds only what the candidate channels on the detector add (nothing wraps
\* around or is clamped onto a valid channel), the back projection gathers
\* only from them, and a pixel with no candidate channel on the detector
\* gets an all-zero row.
C19_ZeroFootprint ==
    /\ fwd_view # <<>> =>
          \A r \in 1..projector_params.sinogram_shape[2] :
              \A c \in 1..projector_params.sinogram_shape[3] :
                  fwd_view[r][c] = OnDetectorView(r, c - 1)
    /\ det_voxel_cylinder # <<>> =>
          \A p \in 1..Len(pixel_indices) : \A r \in 1..projector_params.sinogram_shape[2] :
              /\ det_voxel_cylinder[p][r] = OnDetectorBack(p, r)
              /\ (\A n \in CandidateChannels(p) : ~OnDetector(n))
                     => det_voxel_cylinder[p][r] = 0

\* a batch of non-zero voxels only, one of them with every candidate channel
\* off the detector, projected both ways, the view back projected being non-zero
C19_Witness ==
    /\ BothProjected
    /\ \E p \in 1..Len(pixel_indices) : \A n \in CandidateChannels(p) : ~OnDetector(n)
    /\ \A p \in 1..Len(pixel_indices) : voxel_values[p][1] = 1
    /\ \A c \in 1..projector_params.sinogram_shape[3] : sinogram_view[1][c] = 1

-----------------------------------------------------------------------------
(* Claims about the partition generators *)

\* the set of flattened indices of the pixels inside the mask
InMaskSet(shape) == { i \in 0..(shape[1] * shape[2] - 1) : FlatMask(shape, i) }

NumInMask == Cardinality(InMaskSet(recon_shape))

PartDone == part_pc = "done"

\* the indices that occur in the returned array
PartitionEntries == UNION { Range(partition[i]) : i \in 1..Len(partition) }

NoDuplicate(row) == \A i, j \in 1..Len(row) : row[i] = row[j] => i = j

Ascending(row) == \A i \in 1..(Len(row) - 1) : row[i] <= row[i + 1]

\* C3 (coverage, SpecRandom): when gen_pixel_partition returns for a shape with
\* at least one in-mask pixel, the union of the rows of the result is exactly
\* the set of in-mask pixel indices, whatever the shuffle and the padding.
C3_Coverage ==
    (PartDone /\ strategy = "random" /\ NumInMask >= 1) =>
        PartitionEntries = InMaskSet(recon_shape)

\* a padded partition: several subsets, and more entries than in-mask pixels
C3_Witness ==
    /\ PartDone /\ strategy = "random"
    /\ Len(partition) >= 2
    /\ Len(partition) * Len(partition[1]) > NumInMask
    /\ PartitionEntries = InMaskSet(recon_shape)

\* C4 (within-subset uniqueness, SpecRandom): no row returned by
\* gen_pixel_partition holds the same pixel index twice.
C4_NoDuplicateInSubset ==
    (PartDone /\ strategy = "random") =>
        \A i \in 1..Len(partition) : NoDuplicate(partition[i])

\* C5 (only in-mask pixels, SpecPart): every entry of the array returned by any
\* of the three strategies is the flattened index of an in-mask pixel, also when
\* the number of subsets was reduced.
C5_OnlyInMaskPixels ==
    PartDone => PartitionEntries \subseteq InMaskSet(recon_shape)

\* C6 (balance and size, SpecRandom): for 1 <= k <= N, gen_pixel_partition
\* returns k rows of one common length m, the least integer with k * m >= N.
C6_BalancedSize ==
    (PartDone /\ strategy = "random" /\ num_subsets <= NumInMask) =>
        /\ Len(partition) = num_subsets
        /\ \E m \in 1..NumInMask :
            /\ \A i \in 1..Len(partition) : Len(partition[i]) = m
            /\ num_subsets * m >= NumInMask
            /\ num_subsets * (m - 1) < NumInMask

\* k does not divide N: the rows are padded
C6_Witness ==
    /\ PartDone /\ strategy = "random"
    /\ num_subsets >= 2 /\ num_subsets <= NumInMask
    /\ NumInMask % num_subsets # 0
    /\ Len(partition) = num_subsets

\* C7 (oversubscription clamp, SpecPart): a call of gen_pixel_partition or
\* gen_pixel_partition_blue_noise with k greater than the number of in-mask
\* pixels returns fewer than k subsets and warns; it never raises.
C7_OversubscriptionClamp ==
    (part_pc # "call" /\ strategy \in {"random", "blue_noise"} /\ num_subsets > NumInMask) =>
        /\ part_pc = "done"
        /\ warned
        /\ Len(partition) < num_subsets

\* C8 (sorted subsets, SpecPart): every row of a returned partition is in
\* ascending order, for each of the three strategies.
C8_SubsetsSorted ==
    PartDone => \A i \in 1..Len(partition) : Ascending(partition[i])

\* C9 (subset count of the grid strategy, SpecPart): for k not larger than the
\* number of in-mask pixels, gen_pixel_partition_grid returns exactly k rows.
C9_GridSubsetCount ==
    (PartDone /\ strategy = "grid" /\ num_subsets <= NumInMask) =>
        Len(partition) = num_subsets

\* whether the blue-noise strategy hands the call over to gen_pixel_partition
BlueNoiseFallsBack(shape, k, pat) ==
    \/ k > Cardinality(InMaskSet(shape))
    \/ \E b \in 0..(k - 1) :
          \A i \in InMaskSet(shape) :
              RankToSubset(pat[((i \div shape[2]) % Len(pat)) + 1]
                              [((i % shape[2]) % Len(pat)) + 1], k) # b

\* C10 (size equalisation, SpecPart): the grid-tiled and blue-noise strategies
\* pad a subset only with indices of other subsets, each at most once, so no
\* row of their result holds a duplicate.
C10_EqualisedNoDuplicate ==
    (/\ PartDone
     /\ \/ strategy = "grid"
        \/ strategy = "blue_noise" /\ ~BlueNoiseFallsBack(recon_shape, num_subsets, pattern))
    => \A i \in 1..Len(partition) : NoDuplicate(partition[i])

\* the subset label that the tiled pattern gives pixel i of the grid
PatternLabel(shape, k, pat, i) ==
    RankToSubset(pat[((i \div shape[2]) % Len(pat)) + 1][((i % shape[2]) % Len(pat)) + 1], k)

\* C11 (blue-noise fallback, SpecBlueNoise): when thresholding the tiled rank
\* pattern leaves one of the k subsets without an in-mask pixel, or k exceeds
\* the number of in-mask pixels, the results that a call of
\* gen_pixel_partition_blue_noise can give are exactly the results that
\* gen_pixel_partition can give for the same shape and k; otherwise the call
\* returns k rows of one common non-zero length, row b holding every in-mask
\* pixel that the pattern labels b.
C11_BlueNoiseFallback ==
    strategy = "blue_noise" =>
        IF BlueNoiseFallsBack(recon_shape, num_subsets, pattern)
        THEN part_pc = "call" =>
                gen_pixel_partition_blue_noise(recon_shape, num_subsets, pattern)
                    = gen_pixel_partition(recon_shape, num_subsets)
        ELSE part_pc # "call" =>
             /\ PartDone /\ ~warned
             /\ Len(partition) = num_subsets
             /\ \A b \in 1..num_subsets :
                    /\ Len(partition[b]) = Len(partition[1])
                    /\ Len(partition[b]) >= 1
                    /\ \A i \in InMaskSet(recon_shape) :
                          PatternLabel(recon_shape, num_subsets, pattern, i) = b - 1
                              => i \in Range(partition[b])

\* a fallback although k is not larger than the number of in-mask pixels:
\* some label of the pattern misses the mask
C11_Witness ==
    /\ PartDone /\ strategy = "blue_noise"
    /\ num_subsets >= 2 /\ num_subsets <= NumInMask
    /\ BlueNoiseFallsBack(recon_shape, num_subsets, pattern)
    /\ Len(partition) = num_subsets

\* C12 (sequence extension, SpecIndices): for a non-empty seq and n >= 0,
\* gen_partition_sequence(seq, n) has exactly n entries; entry i is seq[i] for
\* i < len(seq) and the last entry of seq from then on.
C12_SequenceExtension ==
    (seq_pc = "done" /\ max_iterations >= 0) =>
        /\ Len(extended_partition_sequence) = max_iterations
        /\ \A i \in 1..max_iterations :
              extended_partition_sequence[i] =
                  IF i <= Len(partition_sequence) THEN partition_sequence[i]
                  ELSE partition_sequence[Len(partition_sequence)]

\* a sequence that is extended, and whose last entry is not its first
C12_Witness ==
    /\ seq_pc = "done"
    /\ Len(partition_sequence) >= 2
    /\ max_iterations >= Len(partition_sequence) + 2
    /\ partition_sequence[Len(partition_sequence)] # partition_sequence[1]
    /\ Len(extended_partition_sequence) = max_iterations

\* C13 (full index set, SpecIndices): for a shape with at least one in-mask
\* pixel, gen_full_indices returns one ascending 1D array that holds every
\* in-mask pixel index exactly once and nothing else.
C13_FullIndices ==
    (strategy = "full_indices" /\ part_pc # "call" /\ NumInMask >= 1) =>
        /\ PartDone /\ ~warned
        /\ Ascending(full_indices)
        /\ NoDuplicate(full_indices)
        /\ Range(full_indices) = InMaskSet(recon_shape)

\* a grid of which the mask leaves out some pixels
C13_Witness ==
    /\ strategy = "full_indices" /\ PartDone
    /\ NumInMask >= 3
    /\ NumInMask < recon_shape[1] * recon_shape[2]
    /\ Len(full_indices) = NumInMask

-----------------------------------------------------------------------------
(* Claims about stitch_arrays *)

StitchDone == stitch_pc = "done"

\* the extent of a along the stitching axis, and in the other dimension
AxisLen(a) == a.shape[axis + 1]

OffLen(a) == a.shape[2 - axis]

\* the entry of a at position p along the axis and q in the other dimension
Elem(a, p, q) == IF axis = 0 THEN a.data[p][q] ELSE a.data[q][p]

\* the number of output positions that precede the first entry of array i
Start(i) ==
    SumTo([k \in 1..(i - 1) |-> AxisLen(array_list[k]) - overlap_length], i - 1)

\* whether output position p lies in the overlap of arrays i and i + 1
InOverlap(p, i) == Start(i + 1) < p /\ p <= Start(i + 1) + overlap_length

\* whether p lies in no overlap other than that of arrays i and i + 1
InNoOtherOverlap(p, i) ==
    \A i2 \in 1..(Len(array_list) - 1) : i2 # i => ~InOverlap(p, i2)

\* the precondition of stitch_arrays: two or more arrays that agree in the
\* other dimension, none shorter than overlap_length along the axis
StitchPrecondition ==
    /\ Len(array_list) >= 2
    /\ \A i \in 1..Len(array_list) :
          /\ OffLen(array_list[i]) = OffLen(array_list[1])
          /\ AxisLen(array_list[i]) >= overlap_length

Front(list) == SubSeq(list, 1, Len(list) - 1)

\* stitch_arrays([stitch_arrays([a0, ..., a(n-1)], L), an], L)
NestedStitch(list, L, ax) ==
    LET inner == stitch_arrays(Front(list), L, ax)
    IN  IF inner.pc # "done" THEN inner
        ELSE stitch_arrays(<<inner.stitched, list[Len(list)]>>, L, ax)

\* C16 (associativity, SpecStitch): for three or more arrays that satisfy the
\* precondition, one call on the whole list ends as the call on the stitched
\* list without its last array, followed by that last array, ends.
C16_StitchAssociative ==
    (stitch_pc # "call" /\ Len(array_list) >= 3 /\ StitchPrecondition) =>
        StitchOutcome(stitch_pc, stitched)
            = NestedStitch(Scaled(array_list, overlap_length), overlap_length, axis)

\* three arrays of which the middle one is shorter than twice the overlap, so
\* that one of its entries is blended twice
C16_Witness ==
    /\ StitchDone /\ Len(array_list) = 3 /\ overlap_length = 2
    /\ AxisLen(array_list[2]) = 3
    /\ Elem(array_list[1], AxisLen(array_list[1]), 1) = 1
    /\ Elem(array_list[2], 2, 1) = 0
    /\ Elem(array_list[3], 1, 1) = 1
    /\ AxisLen(stitched) = AxisLen(array_list[1]) + AxisLen(array_list[3]) - 1

C18_ShapeMismatchRejected ==
    (stitch_pc # "call"
        /\ \E i, k \in 1..Len(array_list) : OffLen(array_list[i]) # OffLen(array_list[k])) =>
        stitch_pc = "value_error" /\ stitched = <<>>

\* three arrays, none shorter than the overlap, of which only the middle one
\* differs in the other dimension
C18_Witness ==
    /\ stitch_pc = "value_error"
    /\ Len(array_list) = 3
    /\ \A i \in 1..3 : AxisLen(array_list[i]) >= overlap_length
    /\ OffLen(array_list[1]) = OffLen(array_list[3])
    /\ OffLen(array_list[2]) # OffLen(array_list[1])

-----------------------------------------------------------------------------
(* Region-of-reconstruction mask: the claim of the inscribed circle *)

\* whether the centre of pixel (r, c) lies inside or on the circle inscribed
\* in the grid: centred at the grid midpoint, radius the half-extent of the
\* shorter side (doubled coordinates, as in get_2d_ror_mask)
InInscribedCircle(shape, r, c) ==
    LET radius2 == Minimum(shape[1] - 1, shape[2] - 1)
        col_coord2 == 2 * c - (shape[2] - 1)
        row_coord2 == 2 * r - (shape[1] - 1)
    IN  col_coord2 * col_coord2 + row_coord2 * row_coord2 <= radius2 * radius2

\* C21 (inscribed circle, SpecIndices): for the grid of every call of
\* gen_full_indices that has returned, the mask is true exactly at the pixels
\* whose centre lies inside or on the inscribed circle.
C21_InscribedCircle ==
    (strategy = "full_indices" /\ part_pc = "done") =>
        \A r \in 0..(recon_shape[1] - 1), c \in 0..(recon_shape[2] - 1) :
            get_2d_ror_mask(recon_shape, r, c) <=> InInscribedCircle(recon_shape, r, c)

-----------------------------------------------------------------------------
(* The forward projector on grids with a centre pixel and wider voxels *)

\* largest pixel batch of the model below
MaxPsfBatch == 2
\* recon shapes <<rows, cols>> with a centre pixel
PsfShapes == { <<1, 3>>, <<3, 1>> }
\* numbers of detector channels, odd so that there is a centre channel
PsfChannels == {3, 5, 7}
\* delta_voxel: up to four detector channels wide
PsfVoxelDeltas == {1, 2, 3, 4}
\* det_channel_offset
PsfOffsets == {-1, 0, 1}

\* a model whose voxels may span several channels; nothing projected yet
InitPsf ==
    /\ \E shape \in PsfShapes, nr \in DetRowCounts, nc \in PsfChannels,
          dd \in Deltas, dv \in PsfVoxelDeltas, off \in PsfOffsets :
            projector_params = [sinogram_shape |-> <<1, nr, nc>>,
                                recon_shape |-> <<shape[1], shape[2], nr>>,
                                geometry_params |-> get_geometry_parameters(dd, off, dv)]
    /\ angle \in Angles
    /\ pixel_indices \in SeqsOf(0..(projector_params.recon_shape[1]
                                      * projector_params.recon_shape[2] - 1), 1, MaxPsfBatch)
    /\ voxel_values = <<>>
    /\ fwd_view = <<>>
    /\ sinogram_view = <<>>
    /\ coeff_power = 0
    /\ det_voxel_cylinder = <<>>
    /\ angles = <<>>
    /\ verify_pc = "idle"
    /\ PartIdle /\ SeqIdle /\ StitchIdle /\ FbpIdle /\ ViewerIdle

SpecPsf == InitPsf /\ [][ForwardProject]_vars

-----------------------------------------------------------------------------
(* Claims about the forward weights, checked under SpecPsf *)

\* the quantities of the claims, in the units of the model: the channel
\* coordinate of pixel p times 20, its nearest channel, the obliquity times 5
\* and W times 20
Coordinate20(p) == n_p20(pixel_indices[p], angle, projector_params)

NearestChannel(p) == n_p_center(pixel_indices[p], angle, projector_params)

Obliquity5 == Maximum(Abs(angle[1]), Abs(angle[2]))

W20 ==
    (4 * projector_params.geometry_params.delta_voxel * Obliquity5)
        \div projector_params.geometry_params.delta_det_channel

\* clip((W + 1)/2 - |coordinate - n|, 0, min(1, W)), times 20
Overlap20(p, n) ==
    LET reach == (W20 + 20) \div 2 - Abs(Coordinate20(p) - 20 * n)
        top == IF W20 < 20 THEN W20 ELSE 20
    IN  IF reach < 0 THEN 0 ELSE IF reach > top THEN top ELSE reach

\* delta_voxel / obliquity * overlap, times 80
FormulaWeight80(p, n) ==
    (20 * projector_params.geometry_params.delta_voxel * Overlap20(p, n)) \div Obliquity5

PsfRadius == projector_params.geometry_params.psf_radius

\* the sum over the pixels and the offsets in -R..R that meet channel c
\* (0-based) of the voxel value in row r times the weight of the formula
FormulaView(r, c) ==
    SumTo([p \in 1..Len(pixel_indices) |->
              SumTo([k \in 1..(2 * PsfRadius + 1) |->
                        IF NearestChannel(p) + (k - PsfRadius - 1) = c
                        THEN voxel_values[p][r] * FormulaWeight80(p, c)
                        ELSE 0], 2 * PsfRadius + 1)],
          Len(pixel_indices))

\* C23 (forward weight, SpecPsf): the forward view holds, at every channel of
\* every detector row, the sum over the pixels and the offsets in -R..R whose
\* channel nearest_channel + n_offset is that channel of the voxel value times
\* delta_voxel / obliquity * clip((W + 1)/2 - |coordinate - n|, 0, min(1, W)),
\* and so is zero at a channel that no pixel meets.
C23_ForwardWeight ==
    fwd_view # <<>> =>
        \A r \in 1..projector_params.sinogram_shape[2] :
            \A c \in 1..projector_params.sinogram_shape[3] :
                fwd_view[r][c] = FormulaView(r, c - 1)

\* two non-zero voxels narrower than a channel that meet in one channel at an
\* oblique angle, each with a weight below the clip's upper limit there,
\* while another channel of the view stays zero
C23_Witness ==
    /\ fwd_view # <<>> /\ Len(pixel_indices) = 2
    /\ pixel_indices[1] # pixel_indices[2]
    /\ voxel_values[1][1] = 1 /\ voxel_values[2][1] = 1
    /\ W20 < 20 /\ Obliquity5 = 4
    /\ \E c \in 0..(projector_params.sinogram_shape[3] - 1) :
          /\ c \in CandidateChannels(1) /\ c \in CandidateChannels(2)
          /\ Overlap20(1, c) > 0 /\ Overlap20(1, c) < W20
          /\ Overlap20(2, c) > 0 /\ Overlap20(2, c) < W20
          /\ fwd_view[1][c + 1] = FormulaWeight80(1, c) + FormulaWeight80(2, c)
    /\ \E c \in 1..projector_params.sinogram_shape[3] : fwd_view[1][c] = 0

\* the channels of the model's detectors and those up to three beyond the
\* loop's reach on either side of a nearest channel
ChannelsAround(p) ==
    (NearestChannel(p) - PsfRadius - 3)..(NearestChannel(p) + PsfRadius + 3)

\* C26 (sufficient radius, SpecPsf): for every pixel of the batch the overlap
\* weight clip((W + 1)/2 - |coordinate - n|, 0, min(1, W)) of the loop body is
\* zero at every channel n farther than R = psf_radius from the nearest
\* channel, so the offsets -R..R omit no channel of non-zero overlap.
C26_RadiusSufficient ==
    projector_params # <<>> =>
        \A p \in 1..Len(pixel_indices) : \A n \in ChannelsAround(p) :
            Abs(n - NearestChannel(p)) > PsfRadius =>
                L_p_c_n20(pixel_indices[p], n, angle, projector_params) = 0

\* a forward projection with R = 2 in which a pixel has non-zero overlap with
\* the channels two to either side of its nearest one, so that no smaller
\* radius would do
C26_Witness ==
    /\ fwd_view # <<>> /\ PsfRadius = 2
    /\ \E p \in 1..Len(pixel_indices) :
          /\ voxel_values[p][1] = 1
          /\ L_p_c_n20(pixel_indices[p], NearestChannel(p) - 2, angle, projector_params) > 0
          /\ L_p_c_n20(pixel_indices[p], NearestChannel(p) + 2, angle, projector_params) > 0

\* the pixels of the batch whose candidate channels are all on the detector
AllCandidatesOnDetector(p) == \A n \in CandidateChannels(p) : OnDetector(n)

\* delta_voxel * delta_voxel / delta_det_channel, times 80
ConservedWeight80 ==
    (80 * projector_params.geometry_params.delta_voxel
        * projector_params.geometry_params.delta_voxel)
            \div projector_params.geometry_params.delta_det_channel

\* the sum over the offsets -R..R of the weight the loop body computes for
\* pixel p, times 80
WeightSum80(p) ==
    SumTo([k \in 1..(2 * PsfRadius + 1) |->
              A_chan_n80(pixel_indices[p], NearestChannel(p) + (k - PsfRadius - 1),
                         angle, projector_params)], 2 * PsfRadius + 1)

\* the sum of row r of the forward view
ViewSum(r) == SumTo(fwd_view[r], Len(fwd_view[r]))

\* C27 (weight conservation, SpecPsf): for every pixel whose candidate
\* channels all lie on the detector, the weights of the offsets -R..R sum to
\* delta_voxel^2 / delta_det_channel, whatever the angle and the pixel's
\* channel coordinate; a forward view of a batch of such pixels sums, in every
\* row, to that constant times the sum of the row's voxel values.
C27_WeightConservation ==
    /\ projector_params # <<>> =>
          \A p \in 1..Len(pixel_indices) :
              AllCandidatesOnDetector(p) => WeightSum80(p) = ConservedWeight80
    /\ (fwd_view # <<>> /\ \A p \in 1..Len(pixel_indices) : AllCandidatesOnDetector(p)) =>
          \A r \in 1..Len(fwd_view) :
              ViewSum(r) = ConservedWeight80
                  * SumTo([p \in 1..Len(pixel_indices) |-> voxel_values[p][r]],
                          Len(pixel_indices))

\* a non-zero voxel projected at an oblique angle, its coordinate strictly
\* between two channels, R = 2 and all five candidate channels on the
\* detector, three or more of them with non-zero weight
C27_Witness ==
    /\ fwd_view # <<>> /\ Len(pixel_indices) = 1 /\ voxel_values[1][1] = 1
    /\ PsfRadius = 2 /\ Obliquity5 = 4
    /\ AllCandidatesOnDetector(1)
    /\ Coordinate20(1) % 20 # 0
    /\ Cardinality({ c \in 1..Len(fwd_view[1]) : fwd_view[1][c] > 0 }) >= 3
    /\ ViewSum(1) = ConservedWeight80

\* the flattened index of the centre pixel of a grid with odd sides
CentrePixel(shape) == ((shape[1] - 1) \div 2) * shape[2] + (shape[2] - 1) \div 2

\* the centre channel of a detector with an odd number of channels
CentreChannel == (projector_params.sinogram_shape[3] - 1) \div 2

\* a volume whose only non-zero voxel column is at the centre pixel has been
\* forward projected at angle 0 or pi/2 onto a detector centred on the grid
CentreVoxelProjected ==
    /\ fwd_view # <<>>
    /\ pixel_indices = << CentrePixel(projector_params.recon_shape) >>
    /\ voxel_values[1][1] = 1
    /\ angle \in { <<5, 0>>, <<0, 5>> }
    /\ projector_params.geometry_params.det_channel_offset = 0

\* that view back-projected onto all the pixels inside the mask
CentreBack ==
    back_project_one_view_to_pixel_batch(
        fwd_view, MaskedIndices(projector_params.recon_shape), angle, projector_params, 1)

\* the position of the centre pixel among the pixels inside the mask
CentrePosition ==
    CHOOSE k \in 1..Len(MaskedIndices(projector_params.recon_shape)) :
        MaskedIndices(projector_params.recon_shape)[k]
            = CentrePixel(projector_params.recon_shape)

\* C25 (centre voxel end to end, SpecPsf): the forward view of the centre
\* voxel at angle 0 or pi/2 is non-zero only in channels within psf_radius of
\* the centre channel, and back-projecting that view onto all pixels inside
\* the mask gives no pixel a larger value than the centre pixel.
C25_CentreVoxel ==
    CentreVoxelProjected =>
        /\ \A r \in 1..Len(fwd_view) : \A c \in 1..Len(fwd_view[r]) :
              fwd_view[r][c] # 0 => Abs((c - 1) - CentreChannel) <= PsfRadius
        /\ \A k \in 1..Len(CentreBack) : \A r \in 1..Len(CentreBack[k]) :
              CentreBack[k][r] <= CentreBack[CentrePosition][r]

-----------------------------------------------------------------------------
(* fbp_filter: the view batches (parallel_beam.py, lines 343-353) *)

\* the largest number of views and the largest batch size of the model
MaxFbpViews == 4
MaxFbpBatch == 3
\* the contents of a view
ViewValues == {0, 1}

\* apply_convolution_to_view: every row of the view convolved with the
\* reconstruction filter of tomography_utils.generate_direct_recon_filter
apply_convolution_to_view(view) == [convolved |-> view]

\* jax.lax.map(apply_convolution_to_view, sino_batch): view by view, in order
LaxMap(sino_batch) ==
    [k \in 1..Len(sino_batch) |-> apply_convolution_to_view(sino_batch[k])]

\* mutant of ViewSlice: the slice takes one view more
ViewSliceInclusive(s, start, stop) == SubSeq(s, start + 1, Minimum(stop + 1, Len(s)))

\* s[start:stop] for 0 <= start and stop <= len(s)
ViewSlice(s, start, stop) == SubSeq(s, start + 1, stop)

\* jnp.concatenate(list, axis=0)
RECURSIVE ConcatenateViews(_)
ConcatenateViews(list) ==
    IF list = <<>> THEN <<>> ELSE Head(list) \o ConcatenateViews(Tail(list))

\* filtered_sinogram *= jnp.pi / num_views: every view is scaled by pi / num_views
ScaleByPiOver(fs, num_views) ==
    [v \in 1..Len(fs) |-> [convolved |-> fs[v].convolved, pi_over |-> num_views]]

\* fbp_filter has set up its filter and is about to enter the batch loop
InitFbp ==
    /\ sinogram \in SeqsOf(ViewValues, 1, MaxFbpViews)
    /\ view_batch_size \in 1..MaxFbpBatch
    /\ fbp_i = 0
    /\ filtered_sinogram_batch = <<>>
    /\ filtered_sino_list = <<>>
    /\ filtered_sinogram = <<>>
    /\ fbp_pc = "loop"
    /\ ProjIdle /\ PartIdle /\ SeqIdle /\ StitchIdle /\ ViewerIdle

\* lines 348-349: the batch starting at view i is cut out and filtered
FilterBatch ==
    /\ fbp_pc = "loop"
    /\ fbp_i < Len(sinogram)
    /\ filtered_sinogram_batch' =
          LaxMap(ViewSlice(sinogram, fbp_i,
                           Minimum(fbp_i + view_batch_size, Len(sinogram))))
    /\ fbp_pc' = "filtering"
    /\ UNCHANGED <<sinogram, view_batch_size, fbp_i, filtered_sino_list, filtered_sinogram>>
    /\ UNCHANGED <<projVars, partVars, seqVars, stitchVars, viewerVars>>

\* lines 350-351: the batch is ready and is appended; range() moves on
AppendBatch ==
    /\ fbp_pc = "filtering"
    /\ filtered_sino_list' = Append(filtered_sino_list, filtered_sinogram_batch)
    /\ filtered_sinogram_batch' = <<>>
    /\ fbp_i' = fbp_i + view_batch_size
    /\ fbp_pc' = "loop"
    /\ UNCHANGED <<sinogram, view_batch_size, filtered_sinogram>>
    /\ UNCHANGED <<projVars, partVars, seqVars, stitchVars, viewerVars>>

\* lines 352-354: the loop is over; concatenate, scale and return
ReturnFiltered ==
    /\ fbp_pc = "loop"
    /\ fbp_i >= Len(sinogram)
    /\ filtered_sinogram' =
          ScaleByPiOver(ConcatenateViews(filtered_sino_list), Len(sinogram))
    /\ fbp_pc' = "done"
    /\ UNCHANGED <<sinogram, view_batch_size, fbp_i, filtered_sinogram_batch,
                   filtered_sino_list>>
    /\ UNCHANGED <<projVars, partVars, seqVars, stitchVars, viewerVars>>

NextFbp == FilterBatch \/ AppendBatch \/ ReturnFiltered

SpecFbp == InitFbp /\ [][NextFbp]_vars

\* the views [first, last) the claim assigns to batch k (from 1): 0-based
BatchFirst(k) == (k - 1) * view_batch_size

BatchLast(k) == Minimum(k * view_batch_size, Len(sinogram))

\* whether a filtered batch holds the filtered views of batch k, in order
IsBatch(batch, k) ==
    /\ Len(batch) = BatchLast(k) - BatchFirst(k)
    /\ Len(batch) >= 1 /\ Len(batch) <= view_batch_size
    /\ \A j \in 1..Len(batch) :
          batch[j] = apply_convolution_to_view(sinogram[BatchFirst(k) + j])

\* C24 (view batching, SpecFbp): the batches appended so far are the
\* contiguous batches [i, min(i + B, num_views)) for i = 0, B, 2B, ..., each
\* of at most B views; a batch is filtered only when all batches before it
\* have been appended; and the returned sinogram has one view per input view,
\* view v being the filtered and scaled input view v, so that every view was
\* in exactly one batch.
C24_ViewBatching ==
    fbp_pc # "idle" =>
        /\ \A k \in 1..Len(filtered_sino_list) : IsBatch(filtered_sino_list[k], k)
        /\ fbp_i = Len(filtered_sino_list) * view_batch_size
        /\ fbp_pc = "filtering" =>
              IsBatch(filtered_sinogram_batch, Len(filtered_sino_list) + 1)
        /\ fbp_pc # "filtering" => filtered_sinogram_batch = <<>>
        /\ fbp_pc = "done" =>
              /\ Len(filtered_sino_list) = CeilDiv(Len(sinogram), view_batch_size)
              /\ Len(filtered_sinogram) = Len(sinogram)
              /\ \A v \in 1..Len(sinogram) :
                    filtered_sinogram[v] =
                        [convolved |-> sinogram[v], pi_over |-> Len(sinogram)]

\* a sinogram of three views, not all equal, filtered in a batch of two and a
\* batch of one
C24_Witness ==
    /\ fbp_pc = "done"
    /\ Len(sinogram) = 3 /\ view_batch_size = 2
    /\ sinogram[1] # sinogram[2] /\ sinogram[2] # sinogram[3]
    /\ Len(filtered_sino_list) = 2
    /\ Len(filtered_sino_list[1]) = 2 /\ Len(filtered_sino_list[2]) = 1

-----------------------------------------------------------------------------
(* slice_viewer: the event handlers (plot_utils.py) *)

\* the largest number of slices of a volume
MaxViewerSlices == 3
\* image heights and widths: data is 1 x 2, data2 is 1 x 1 or 1 x 2
ViewerShape == <<1, 2>>
ViewerShapes2 == { <<1, 1>>, <<1, 2>> }
\* pointer positions <<2 * xdata, 2 * ydata>>: pixel centres and half-way points
Positions == { <<0, 0>>, <<1, 0>>, <<2, 0>> }
\* event.canvas.toolbar.mode
ToolbarModes == {"", "zoom rect"}
\* event.key
Keys == {"escape", "a"}

\* the global ax_data2: it stays None when there is no second volume
ax_data2 == IF data2_shape = None THEN "none" ELSE "ax_data2"

\* event.inaxes: an axes of the figure, or "none" outside all axes
Axes2 == {"ax_data", "ax_slice_slider", "none"} \cup {ax_data2}

\* the module globals as a record, and the exception of the handler, if any
Globals ==
    [circle |-> circle, circle2 |-> circle2, is_drawing |-> is_drawing,
     text_box |-> text_box, text_box2 |-> text_box2,
     cur_slice |-> cur_slice, cur_slice2 |-> cur_slice2, raised |-> "none"]

\* plt.Circle((xdata, ydata), 0) added to an axes; radius_sq = (2 * radius)^2
Circle(pos) == [center |-> pos, radius_sq |-> 0]

\* ax.text(...) showing mean and standard deviation of num_pixels values
Text(num_pixels) == [attached |-> TRUE, num_pixels |-> num_pixels]

\* Artist.remove() raises ValueError for an artist that was removed before
\* (its axes no longer lists it)
RemoveRaises(artist) == artist # None /\ ~artist.attached

\* the artist after artist.remove(), the variable still referring to it
Removed(artist) == [artist EXCEPT !.attached = FALSE]

\* get_mask: the pixels <<y, x>> whose centre is within radius of the centre
get_mask(shape, c) ==
    { px \in (0..(shape[1] - 1)) \X (0..(shape[2] - 1)) :
        (2 * px[2] - c.center[1]) * (2 * px[2] - c.center[1])
            + (2 * px[1] - c.center[2]) * (2 * px[1] - c.center[2]) <= c.radius_sq }

\* display_mean, lines 274-286: the part for data2
display_mean_data2(g) ==
    IF data2_shape = None THEN g
    ELSE LET mask == IF data2_shape # data_shape
                     THEN get_mask(data2_shape, g.circle)
                     ELSE get_mask(data_shape, g.circle)
         IN  IF g.cur_slice2 < 0 \/ g.cur_slice2 >= data2_shape[3]
             THEN [g EXCEPT !.raised = "IndexError"]
             ELSE IF RemoveRaises(g.text_box2)
             THEN [g EXCEPT !.raised = "ValueError"]
             ELSE IF Cardinality(mask) > 0
             THEN [g EXCEPT !.text_box2 = Text(Cardinality(mask))]
             ELSE IF g.text_box2 # None
             THEN [g EXCEPT !.text_box2 = Removed(g.text_box2)]
             ELSE g

\* display_mean
display_mean(g) ==
    IF g.circle = None THEN g
    ELSE LET mask == get_mask(data_shape, g.circle)
         IN  IF RemoveRaises(g.text_box)
             THEN [g EXCEPT !.raised = "ValueError"]
             ELSE IF Cardinality(mask) > 0
             THEN display_mean_data2([g EXCEPT !.text_box = Text(Cardinality(mask))])
             ELSE IF g.text_box # None
             THEN display_mean_data2([g EXCEPT !.text_box = Removed(g.text_box)])
             ELSE display_mean_data2(g)

\* update_slice(val) for val = val2 / 2
update_slice(g, val2) ==
    LET cs == RoundHalfEven(val2, 2)
        g1 == [g EXCEPT !.cur_slice = cs]
    IN  IF data2_shape = None THEN display_mean(g1)
        ELSE LET cs2 == RoundHalfEven(cs * data2_shape[3], data_shape[3])
                 g2 == [g1 EXCEPT !.cur_slice2 = cs2]
             IN  IF cs2 >= data2_shape[3]
                 THEN [g2 EXCEPT !.raised = "IndexError"]
                 ELSE display_mean(g2)

\* lines 182-194 and 302-305: remove whatever exists, in the order circle,
\* circle2, text_box, text_box2; a raising remove ends the handler
RemoveAll(g) ==
    LET g1 == [g EXCEPT !.circle = None, !.circle2 = None]
    IN  IF RemoveRaises(g.text_box) THEN [g1 EXCEPT !.raised = "ValueError"]
        ELSE IF RemoveRaises(g.text_box2)
        THEN [g1 EXCEPT !.text_box = None, !.raised = "ValueError"]
        ELSE [g1 EXCEPT !.text_box = None, !.text_box2 = None]

\* on_button_press
on_button_press(g, inaxes, mode, pos) ==
    IF inaxes # "ax_data" /\ (data2_shape = None \/ inaxes # ax_data2) THEN g
    ELSE IF mode # "" THEN g
    ELSE LET g1 == RemoveAll([g EXCEPT !.is_drawing = TRUE])
         IN  IF g1.raised # "none" THEN g1
             ELSE [g1 EXCEPT !.circle = Circle(pos),
                             !.circle2 = IF data2_shape # None THEN Circle(pos) ELSE None]

\* on_motion_notify; xdata and ydata are None outside all axes
on_motion_notify(g, inaxes, mode, pos) ==
    IF ~g.is_drawing THEN g
    ELSE IF (inaxes # "ax_data" /\ inaxes # ax_data2) \/ g.circle = None THEN g
    ELSE IF mode # "" THEN g
    ELSE IF inaxes = "none" THEN g
    ELSE LET dx == pos[1] - g.circle.center[1]
             dy == pos[2] - g.circle.center[2]
             radius_sq == dx * dx + dy * dy
         IN  [g EXCEPT !.circle = [g.circle EXCEPT !.radius_sq = radius_sq],
                       !.circle2 = IF g.circle2 # None
                                   THEN [g.circle2 EXCEPT !.radius_sq = radius_sq]
                                   ELSE None]

\* on_button_release
on_button_release(g, inaxes, mode) ==
    IF inaxes # "ax_data" /\ inaxes # ax_data2 THEN g
    ELSE IF mode # "" THEN g
    ELSE display_mean([g EXCEPT !.is_drawing = FALSE])

\* on_key_press
on_key_press(g, key) == IF key = "escape" THEN RemoveAll(g) ELSE g

\* slice_viewer has set up the figure and connected the handlers
InitViewer ==
    /\ \E n \in 1..MaxViewerSlices : data_shape = ViewerShape \o <<n>>
    /\ \/ data2_shape = None
       \/ \E s \in ViewerShapes2, n \in 1..MaxViewerSlices : data2_shape = s \o <<n>>
    /\ circle = None
    /\ circle2 = None
    /\ is_drawing = FALSE
    /\ text_box = None
    /\ text_box2 = None
    /\ cur_slice = data_shape[3] \div 2
    /\ cur_slice2 = IF data2_shape = None THEN None ELSE data2_shape[3] \div 2
    /\ button_down = "up"
    /\ event = [name |-> "none", key |-> "", raised |-> "none"]
    /\ ProjIdle /\ PartIdle /\ SeqIdle /\ StitchIdle /\ FbpIdle

\* the globals after a handler has run, and the event it handled
Handled(g, name, key) ==
    /\ circle' = g.circle
    /\ circle2' = g.circle2
    /\ is_drawing' = g.is_drawing
    /\ text_box' = g.text_box
    /\ text_box2' = g.text_box2
    /\ cur_slice' = g.cur_slice
    /\ cur_slice2' = g.cur_slice2
    /\ event' = [name |-> name, key |-> key, raised |-> g.raised]
    /\ UNCHANGED <<data_shape, data2_shape>>
    /\ UNCHANGED <<projVars, partVars, seqVars, stitchVars, fbpVars>>

\* a button_press_event
OnButtonPress ==
    /\ data_shape # <<>>
    /\ button_down = "up"
    /\ \E inaxes \in Axes2, mode \in ToolbarModes, pos \in Positions :
          /\ button_down' = inaxes
          /\ Handled(on_button_press(Globals, inaxes, mode, pos), "button_press", "")

\* event.inaxes of a motion or release event: the slider keeps the mouse
\* grabbed while it is dragged (Slider calls canvas.grab_mouse), otherwise
\* it is where the pointer is
PointerAxes == IF button_down = "ax_slice_slider" THEN {"ax_slice_slider"} ELSE Axes2

\* a motion_notify_event
OnMotionNotify ==
    /\ data_shape # <<>>
    /\ \E inaxes \in PointerAxes, mode \in ToolbarModes, pos \in Positions :
          Handled(on_motion_notify(Globals, inaxes, mode, pos), "motion_notify", "")
    /\ UNCHANGED button_down

\* a button_release_event
OnButtonRelease ==
    /\ data_shape # <<>>
    /\ button_down # "up"
    /\ button_down' = "up"
    /\ \E inaxes \in PointerAxes, mode \in ToolbarModes :
          Handled(on_button_release(Globals, inaxes, mode), "button_release", "")

\* a key_press_event
OnKeyPress ==
    /\ data_shape # <<>>
    /\ \E key \in Keys : Handled(on_key_press(Globals, key), "key_press", key)
    /\ UNCHANGED button_down

\* the slice slider, dragged with the mouse, changes its value; with a
\* single slice valmin = valmax and the value cannot change
UpdateSlice ==
    /\ data_shape # <<>>
    /\ data_shape[3] >= 2
    /\ button_down = "ax_slice_slider"
    /\ \E val2 \in 0..(2 * (data_shape[3] - 1)) :
          Handled(update_slice(Globals, val2), "slider", "")
    /\ UNCHANGED button_down

NextViewer ==
    OnButtonPress \/ OnMotionNotify \/ OnButtonRelease \/ OnKeyPress \/ UpdateSlice

SpecViewer == InitViewer /\ [][NextViewer]_vars

-----------------------------------------------------------------------------
(* Claims about slice_viewer, checked under SpecViewer *)

\* the handler of the escape key has just run
EscapeHandled == event.name = "key_press" /\ event.key = "escape"

\* C22 (escape deselects, SpecViewer): whatever the state of the viewer was,
\* once the handler of the escape key has run circle, circle2, text_box and
\* text_box2 are all None.
C22_EscapeDeselects ==
    EscapeHandled =>
        circle = None /\ circle2 = None /\ text_box = None /\ text_box2 = None

\* the handler of the slice slider has just run on a viewer of two volumes
SliceUpdated == event.name = "slider" /\ data2_shape # None

\* C28 (slice of the second volume, SpecViewer): once update_slice has run on
\* a viewer of two volumes, cur_slice is a slice of data, cur_slice2 is
\* round(cur_slice / data.shape[2] * data2.shape[2]), and cur_slice2 is a
\* slice of data2: 0 <= cur_slice2 < data2.shape[2].
C28_SecondSliceInRange ==
    SliceUpdated =>
        /\ cur_slice >= 0 /\ cur_slice < data_shape[3]
        /\ cur_slice2 = RoundHalfEven(cur_slice * data2_shape[3], data_shape[3])
        /\ cur_slice2 >= 0 /\ cur_slice2 < data2_shape[3]

\* a step in which a release is handled while a selection is being drawn
ReleaseWhileDrawing ==
    /\ is_drawing
    /\ button_down # "up" /\ button_down' = "up"
    /\ event'.name = "button_release"

\* C29 (release ends the drawing, SpecViewer): a button release that follows
\* the press that started a selection leaves is_drawing false, and a motion
\* event while no button is held never changes the radius of the circle.
C29_ReleaseEndsDrawing ==
    [][/\ ReleaseWhileDrawing => ~is_drawing'
       /\ (event'.name = "motion_notify" /\ button_down = "up" /\ circle # None
              /\ circle' # None)
             => circle'.radius_sq = circle.radius_sq]_vars

-----------------------------------------------------------------------------
(* stitch_arrays without overlap, checked under SpecStitch *)

\* C30 (no overlap, SpecStitch): with overlap_length = 0 a call on two or more
\* arrays that agree in the other dimension returns without error, and the
\* result is the arrays joined in order along the axis: as long as the arrays
\* together, every entry of every array at its place.
C30_ZeroOverlapConcatenates ==
    (stitch_pc # "call" /\ overlap_length = 0 /\ StitchPrecondition) =>
        /\ StitchDone
        /\ AxisLen(stitched) =
               SumTo([k \in 1..Len(array_list) |-> AxisLen(array_list[k])], Len(array_list))
        /\ OffLen(stitched) = OffLen(array_list[1])
        /\ \A i \in 1..Len(array_list) : \A p0 \in 1..AxisLen(array_list[i]) :
              \A q \in 1..OffLen(array_list[1]) :
                  Elem(stitched, Start(i) + p0, q) = Elem(array_list[i], p0, q)

=============================================================================
